---- MODULE Spec2Model ----
(***************************************************************************)
(* Model of contract_ui/app.py: the model catalog loader run at start-up,  *)
(* the locale-tolerant numeric normalizers, the generation client and the  *)
(* three POST handlers (/generate, /download-docx, /download-pdf).         *)
(*                                                                         *)
(* Strings are sequences of tokens.  A token is one character (" ", "7",   *)
(* ",", ...) or an opaque run of non-blank characters ("m1", "__custom__").*)
(* An optional value (Python's None / a missing form key) is a record      *)
(* [some |-> FALSE, ...].                                                  *)
(***************************************************************************)
EXTENDS Integers, Sequences, FiniteSets, TLC

VARIABLES
    phase,          \* "startup" before line 43 has run, "serving" after
    doc,            \* the catalog document found at MODELS_JSON_PATH
    loaded,         \* outcome of load_models_from_json (line 43)
    OPENROUTER_API_KEY, \* TRUE iff the credential is set in the environment
    handler,        \* the route of the request handled last
    form,           \* request.form of that request
    resp,           \* what the remote endpoint answered (if it was asked)
    params,         \* generate's params dict (strings trimmed, numbers normalized)
    sent,           \* requests.post calls made while handling the request
    result,         \* what call_openrouter returned or raised
    exported,       \* make_docx / make_pdf calls made while handling the request
    flashed,        \* flash() calls made while handling the request
    outcome         \* how the request ended

vars == <<phase, doc, loaded, OPENROUTER_API_KEY, handler, form, resp, params,
          sent, result, exported, flashed, outcome>>

catalogVars == <<phase, doc, loaded, OPENROUTER_API_KEY>>

(***************************************************************************)
(* Bounds                                                                  *)
(***************************************************************************)
MaxTextLen == 2     \* longest contract_text posted to the download routes
MaxModels == 2      \* longest "models" list of a catalog document

(***************************************************************************)
(* Optional values and strings                                             *)
(***************************************************************************)
NoStr == [some |-> FALSE, s |-> <<>>]
Str(s) == [some |-> TRUE, s |-> s]

NoInt == [some |-> FALSE, v |-> 0]
SomeInt(n) == [some |-> TRUE, v |-> n]

\* a float is the decimal m / 10^e with trailing zeros dropped
Dec(m, e) == [m |-> m, e |-> e]
NoFloat == [some |-> FALSE, v |-> Dec(0, 0)]
SomeFloat(d) == [some |-> TRUE, v |-> d]

Digits == {"0", "1", "2", "3", "4", "5", "6", "7", "8", "9"}
Whitespace == {" ", "nbsp", "\n"}

DigitVal(c) ==
    CASE c = "0" -> 0 [] c = "1" -> 1 [] c = "2" -> 2 [] c = "3" -> 3
      [] c = "4" -> 4 [] c = "5" -> 5 [] c = "6" -> 6 [] c = "7" -> 7
      [] c = "8" -> 8 [] c = "9" -> 9

RECURSIVE LStrip(_)
LStrip(s) ==
    IF s # <<>> /\ Head(s) \in Whitespace THEN LStrip(Tail(s)) ELSE s

RECURSIVE RStrip(_)
RStrip(s) ==
    IF s # <<>> /\ s[Len(s)] \in Whitespace
    THEN RStrip(SubSeq(s, 1, Len(s) - 1))
    ELSE s

\* str.strip(): leading and trailing whitespace removed
Strip(s) == RStrip(LStrip(s))

\* str.replace(old, new) for a one-character old; new is a string
RECURSIVE Replace(_, _, _)
Replace(s, old, new) ==
    IF s = <<>> THEN <<>>
    ELSE (IF Head(s) = old THEN new ELSE <<Head(s)>>) \o Replace(Tail(s), old, new)

RECURSIVE DigitsValue(_)
DigitsValue(s) ==
    IF s = <<>> THEN 0
    ELSE 10 * DigitsValue(SubSeq(s, 1, Len(s) - 1)) + DigitVal(s[Len(s)])

AllDigits(s) == \A i \in 1..Len(s) : s[i] \in Digits

Unsigned(s) == IF s # <<>> /\ Head(s) \in {"-", "+"} THEN Tail(s) ELSE s
Sign(s) == IF s # <<>> /\ Head(s) = "-" THEN -1 ELSE 1

\* int(s) succeeds: surrounding whitespace, optional sign, one or more digits
IsIntLiteral(s) == Unsigned(Strip(s)) # <<>> /\ AllDigits(Unsigned(Strip(s)))
IntValue(s) == Sign(Strip(s)) * DigitsValue(Unsigned(Strip(s)))

\* float(s) succeeds: surrounding whitespace, optional sign, digits with at
\* most one ".", one digit at least
DotCount(s) == Cardinality({i \in 1..Len(s) : s[i] = "."})
IsFloatLiteral(s) ==
    LET u == Unsigned(Strip(s)) IN
    /\ DotCount(u) <= 1
    /\ AllDigits(Replace(u, ".", <<>>))
    /\ Replace(u, ".", <<>>) # <<>>

RECURSIVE Normalize(_, _)
Normalize(m, e) ==
    IF e > 0 /\ m % 10 = 0 THEN Normalize(m \div 10, e - 1) ELSE Dec(m, e)

DotAt(s) == IF DotCount(s) = 0 THEN Len(s)
            ELSE CHOOSE i \in 1..Len(s) : s[i] = "."

FloatValue(s) ==
    LET u == Unsigned(Strip(s))
        m == DigitsValue(Replace(u, ".", <<>>))
        e == IF DotCount(u) = 0 THEN 0 ELSE Len(u) - DotAt(u)
        n == Normalize(m, e)
    IN  Dec(Sign(Strip(s)) * n.m, n.e)

to_float_fr(x, default) ==
    IF ~x.some THEN default
    ELSE LET s == Replace(Replace(Replace(Strip(x.s), "nbsp", <<>>), " ", <<>>), ",", <<".">>)
         IN  IF IsFloatLiteral(s) THEN SomeFloat(FloatValue(s)) ELSE default

to_int_fr(x, default) ==
    IF ~x.some THEN default
    ELSE LET s == Replace(Replace(Replace(Strip(x.s), "nbsp", <<>>), " ", <<>>), ",", <<>>)
         IN  IF IsIntLiteral(s) THEN SomeInt(IntValue(s)) ELSE default

(***************************************************************************)
(* Model catalog (load_models_from_json)                                   *)
(***************************************************************************)
\* JSON values as Python sees them: t is the type, s the text of a string
JV(t, s) == [t |-> t, s |-> s]
JAbsent == JV("absent", "")     \* the key is not in the object
JNull == JV("null", "")         \* null, and Python's None
JStr(s) == JV("str", s)
JList == JV("list", "")         \* a non-empty array: truthy, unhashable

Truthy(v) == \/ v.t = "str" /\ v.s # ""
             \/ v.t = "list"
Hashable(v) == v.t # "list"
\* f"{v}"
Format(v) == IF v.t = "str" THEN v ELSE JStr("None")

HardCodedDefault == JStr("meta-llama/llama-3.1-70b-instruct")
FallbackLabel == JStr("Llama 3.1 70B Instruct (Meta)")

\* an element of "models": an object with optional id and label, or a string
ItemObj(id, label) == [t |-> "obj", id |-> id, label |-> label]
ItemStr == [t |-> "str", id |-> JAbsent, label |-> JAbsent]

\* dict.get(key) and dict.get(key, default)
Get(v) == IF v.t = "absent" THEN JNull ELSE v
GetOr(v, default) == IF v.t = "absent" THEN default ELSE v

\* lines 28-32: the loop over data.get("models", []); item.get raises
\* AttributeError on an element that is not an object
RECURSIVE LoopModels(_, _)
LoopModels(items, models_list) ==
    IF items = <<>> THEN [raised |-> FALSE, models_list |-> models_list]
    ELSE LET item == Head(items) IN
         IF item.t # "obj" THEN [raised |-> TRUE, models_list |-> models_list]
         ELSE LET mid == Get(item.id)
                  label == GetOr(item.label, mid)
              IN  LoopModels(Tail(items),
                             IF Truthy(mid) THEN Append(models_list, <<mid, label>>)
                             ELSE models_list)

\* lines 25-36: the try block and its except branch
TryLoad(d) ==
    IF d.file # "json" \/ d.top # "obj"
    THEN \* read_text, json.loads or data.get raised before line 27 assigned
         [default_model |-> HardCodedDefault,
          models_list |-> <<<<HardCodedDefault, FallbackLabel>>>>]
    ELSE LET default_model == GetOr(d.default, HardCodedDefault)
             loop == IF d.models.t = "absent" THEN LoopModels(<<>>, <<>>)
                     ELSE IF d.models.t = "list" THEN LoopModels(d.models.items, <<>>)
                     ELSE [raised |-> TRUE, models_list |-> <<>>]  \* not iterable
         IN  IF loop.raised
             THEN [default_model |-> default_model,
                   models_list |-> <<<<default_model, FallbackLabel>>>>]
             ELSE [default_model |-> default_model, models_list |-> loop.models_list]

Ids(models_list) == {models_list[i][1] : i \in 1..Len(models_list)}

\* lines 20-42
load_models_from_json(d) ==
    LET t == TryLoad(d) IN
    IF t.models_list = <<>>
    THEN [raised |-> FALSE, default_model |-> t.default_model, models_list |-> <<>>]
    ELSE IF (\E m \in Ids(t.models_list) : ~Hashable(m)) \/ ~Hashable(t.default_model)
    THEN \* line 39: TypeError (unhashable type), outside the try block
         [raised |-> TRUE, default_model |-> JNull, models_list |-> <<>>]
    ELSE IF t.default_model \notin Ids(t.models_list)
    THEN [raised |-> FALSE, default_model |-> t.default_model,
          models_list |-> <<<<t.default_model, Format(t.default_model)>>>> \o t.models_list]
    ELSE [raised |-> FALSE, default_model |-> t.default_model,
          models_list |-> t.models_list]

NotLoaded == [raised |-> FALSE, default_model |-> JNull, models_list |-> <<>>]

\* the documents the loader is tried on
NoModels == [t |-> "absent", items |-> <<>>]
Unreadable(kind) == [file |-> kind, top |-> "none", default |-> JAbsent, models |-> NoModels]
DefaultValues == {JAbsent, JNull, JStr(""), JStr("x/y"), HardCodedDefault, JList}
IdValues == {JAbsent, JStr(""), JStr("m1"), JStr("x/y"), JList}
LabelValues == {JAbsent, JStr("L")}
Items == {ItemStr} \cup {ItemObj(i, l) : i \in IdValues, l \in LabelValues}
ItemLists == UNION {[1..n -> Items] : n \in 0..MaxModels}
ModelsValues == {NoModels, [t |-> "num", items |-> <<>>]}
                \cup {[t |-> "list", items |-> l] : l \in ItemLists}
Documents ==
    {Unreadable("missing"), Unreadable("invalid_json")}
    \cup {[file |-> "json", top |-> "array", default |-> JAbsent, models |-> NoModels]}
    \cup {[file |-> "json", top |-> "obj", default |-> d, models |-> m] :
            d \in DefaultValues, m \in ModelsValues}

(***************************************************************************)
(* Generation client (call_openrouter)                                     *)
(***************************************************************************)
MaxTokens == 1600

Body(json, shape, content) == [json |-> json, shape |-> shape, content |-> content]
NoBody == Body(FALSE, "none", <<>>)

\* what the endpoint can answer: nothing in time, or a status with a body.
\* A JSON body is {choices:[{message:{content:<content>}}]} ("completion") or
\* lacks one step of that path; a text body is not JSON at all.
Response(kind, status, body) == [kind |-> kind, status |-> status, body |-> body]
NoResponse == Response("none", 0, NoBody)
JsonShapes == {"no_choices", "empty_choices", "no_message", "null_content", "not_object"}
Bodies == {Body(TRUE, "completion", c) : c \in {<<"X">>, <<" ", "X", "\n">>}}
          \cup {Body(TRUE, sh, <<>>) : sh \in JsonShapes}
          \cup {Body(FALSE, "text", <<"oops">>)}
Statuses == {200, 400, 500}
Responses == {Response("Timeout", 0, NoBody)}
             \cup {Response("response", st, b) : st \in Statuses, b \in Bodies}

Result(kind, text, exc, status, payload) ==
    [kind |-> kind, text |-> text, exc |-> exc, status |-> status, payload |-> payload]
NoResult == Result("none", <<>>, "", 0, NoBody)
Return(text) == Result("return", text, "", 0, NoBody)
Raise(exc, status, payload) == Result("raise", <<>>, exc, status, payload)

\* line 76: data["choices"][0]["message"]["content"].strip()
Extract(body) ==
    CASE body.shape = "completion" -> Return(Strip(body.content))
      [] body.shape = "no_choices" -> Raise("KeyError", 0, NoBody)
      [] body.shape = "empty_choices" -> Raise("IndexError", 0, NoBody)
      [] body.shape = "no_message" -> Raise("KeyError", 0, NoBody)
      [] body.shape = "null_content" -> Raise("AttributeError", 0, NoBody)
      [] body.shape = "not_object" -> Raise("TypeError", 0, NoBody)

\* lines 48-66: the one requests.post, with the headers and payload built for it
Post(key, model_id, prompt, temperature, max_tokens) ==
    <<[authorization |-> IF key THEN "Bearer <key>" ELSE "Bearer None",
       model |-> model_id, prompt |-> prompt,
       temperature |-> temperature, max_tokens |-> max_tokens]>>

\* lines 67-76: what is made of the answer r
Answer(r) ==
    IF r.kind # "response" THEN Raise(r.kind, 0, NoBody)          \* raised by requests.post
    ELSE IF r.status # 200 THEN Raise("RuntimeError", r.status, r.body)
    ELSE IF ~r.body.json THEN Raise("JSONDecodeError", 0, NoBody) \* r.json()
    ELSE Extract(r.body)

\* a client that posts again when the first answer is a failure
call_openrouter_Retrying(key, model_id, prompt, temperature, max_tokens, r) ==
    [sent |-> IF Answer(r).kind = "raise"
              THEN Post(key, model_id, prompt, temperature, max_tokens)
                   \o Post(key, model_id, prompt, temperature, max_tokens)
              ELSE Post(key, model_id, prompt, temperature, max_tokens),
     result |-> Answer(r)]

\* lines 47-76; key is the environment's credential, r the endpoint's answer
call_openrouter(key, model_id, prompt, temperature, max_tokens, r) ==
    [sent |-> Post(key, model_id, prompt, temperature, max_tokens),
     result |-> Answer(r)]

(***************************************************************************)
(* Document exporter (make_docx, make_pdf)                                 *)
(***************************************************************************)
\* python-docx refuses control characters (ValueError from lxml)
make_docx(title, text) ==
    [raised |-> \E i \in 1..Len(text) : text[i] = "NUL", title |-> title, text |-> text]

\* reportlab's Paragraph parses its text as markup and refuses an unclosed tag
make_pdf(title, text) ==
    [raised |-> \E i \in 1..Len(text) : text[i] = "<b>", title |-> title, text |-> text]

(***************************************************************************)
(* Request forms                                                           *)
(***************************************************************************)
StringFields == <<"tenant_name", "landlord_name", "address", "start_date">>
NumericFields == <<"rent", "security_deposit", "duration_months">>

EmptyForm ==
    [tenant_name |-> NoStr, landlord_name |-> NoStr, rent |-> NoStr,
     security_deposit |-> NoStr, duration_months |-> NoStr, address |-> NoStr,
     start_date |-> NoStr, model_id |-> NoStr, model_id_custom |-> NoStr,
     temperature |-> NoStr, contract_text |-> NoStr]

\* form.get(key, default)
FormGet(x, default) == IF x.some THEN x.s ELSE default

\* the values each field of a POST /generate form is drawn from
TenantInputs == {NoStr, Str(<<" ">>), Str(<<"a", " ">>)}
LandlordInputs == {Str(<<>>), Str(<<"b">>)}
AddressInputs == {Str(<<"nbsp", "\n">>), Str(<<" ", "c">>)}
StartDateInputs == {NoStr, Str(<<"2024-01-01">>)}
RentInputs == {NoStr, Str(<<"7", " ", "0", "0", "0">>),
               Str(<<"1", "5", "0", "0", ",", "5", "0">>),
               Str(<<"1", "5", "0", "0", ".", "5", "0">>)}
DepositInputs == {Str(<<>>), Str(<<"7", ",", "0", "0", "0">>)}
MonthsInputs == {NoStr, Str(<<"x">>), Str(<<" ", "1", "nbsp", "2">>)}
ModelInputs == {NoStr, Str(<<" ">>), Str(<<"__custom__">>), Str(<<" ", "m1">>)}
CustomInputs == {NoStr, Str(<<"nbsp">>), Str(<<"m2", " ">>)}
TemperatureInputs == {NoStr, Str(<<" ", "0", ",", "7">>)}

GenerateForms ==
    {[EmptyForm EXCEPT !.tenant_name = f[1], !.landlord_name = f[2], !.address = f[3],
                       !.start_date = f[4], !.rent = f[5], !.security_deposit = f[6],
                       !.duration_months = f[7], !.model_id = f[8],
                       !.model_id_custom = f[9], !.temperature = f[10]] :
        f \in TenantInputs \X LandlordInputs \X AddressInputs \X StartDateInputs
              \X RentInputs \X DepositInputs \X MonthsInputs
              \X ModelInputs \X CustomInputs \X TemperatureInputs}

TextTokens == {" ", "\n", "a", "NUL", "<b>"}
Texts == UNION {[1..n -> TextTokens] : n \in 0..MaxTextLen}
DownloadForms ==
    {EmptyForm} \cup {[EmptyForm EXCEPT !.contract_text = Str(s)] : s \in Texts}

(***************************************************************************)
(* POST /generate                                                          *)
(***************************************************************************)
DefaultTemperature == SomeFloat(Dec(4, 1))      \* 0.4

\* lines 152-160
Params(f) ==
    [tenant_name |-> Strip(FormGet(f.tenant_name, <<>>)),
     landlord_name |-> Strip(FormGet(f.landlord_name, <<>>)),
     rent |-> to_int_fr(f.rent, NoInt),
     security_deposit |-> to_int_fr(f.security_deposit, NoInt),
     duration_months |-> to_int_fr(f.duration_months, NoInt),
     address |-> Strip(FormGet(f.address, <<>>)),
     start_date |-> Strip(FormGet(f.start_date, <<>>))]

NoParams == Params(EmptyForm)

\* a validator that stops at the first empty field
MissingFields_FailFast(p) ==
    LET all == SelectSeq(StringFields, LAMBDA k : p[k] = <<>>)
    IN  IF all = <<>> THEN <<>> ELSE <<Head(all)>>

\* line 163
MissingFields(p) == SelectSeq(StringFields, LAMBDA k : p[k] = <<>>)

\* a validator that forgets duration_months
InvalidFields_SkipsMonths(p) ==
    SelectSeq(<<"rent", "security_deposit">>, LAMBDA k : ~p[k].some)

\* line 164
InvalidFields(p) == SelectSeq(NumericFields, LAMBDA k : ~p[k].some)

\* lines 166-169: the message, one part per non-empty list, and its flash
Flash(kind, parts, exc) == [kind |-> kind, category |-> "danger", parts |-> parts, exc |-> exc]
ValidationFlash(missing, invalid) ==
    Flash("validation",
          (IF missing # <<>> THEN <<[label |-> "Champs manquants", fields |-> missing]>>
           ELSE <<>>)
          \o (IF invalid # <<>>
              THEN <<[label |-> "Champs numeriques invalides", fields |-> invalid]>>
              ELSE <<>>),
          NoResult)

\* line 185: flash(str(e), "danger")
ExceptionFlash(e) == Flash("exception", <<>>, e)

\* a catalog string as posted text
Tokens(v) == IF v.s = "" THEN <<>> ELSE <<v.s>>

\* lines 173-177
ChooseModel(f, default_model) ==
    LET model_choice == Strip(FormGet(f.model_id, <<>>)) IN
    IF model_choice = <<"__custom__">> THEN Strip(FormGet(f.model_id_custom, <<>>))
    ELSE IF model_choice # <<>> THEN model_choice
    ELSE Tokens(default_model)

\* lines 78-97: the fixed template with the seven parameters in it
build_prompt(p) == [template |-> "contrat de bail", p |-> p]

\* lines 162-170: validation failed
GenerateRejected(f, p, missing, invalid) ==
    /\ handler' = "generate"
    /\ form' = f
    /\ params' = p
    /\ resp' = NoResponse
    /\ sent' = <<>>
    /\ result' = NoResult
    /\ exported' = <<>>
    /\ flashed' = <<ValidationFlash(missing, invalid)>>
    /\ outcome' = "redirect_index"

\* lines 172-192: validation passed; r is the endpoint's answer
GenerateCalled(f, p, r) ==
    LET model_id == ChooseModel(f, loaded.default_model)
        temperature == to_float_fr(f.temperature, DefaultTemperature)
        call == call_openrouter(OPENROUTER_API_KEY, model_id, build_prompt(p),
                                temperature, MaxTokens, r)
    IN  /\ handler' = "generate"
        /\ form' = f
        /\ params' = p
        /\ resp' = r
        /\ sent' = call.sent
        /\ result' = call.result
        /\ exported' = <<>>
        /\ IF call.result.kind = "raise"
           THEN flashed' = <<ExceptionFlash(call.result)>> /\ outcome' = "redirect_index"
           ELSE flashed' = <<>> /\ outcome' = "render_result"

\* lines 148-192
Generate ==
    /\ phase = "serving" /\ handler = "none"
    /\ \E f \in GenerateForms :
        LET p == Params(f)
            missing == MissingFields(p)
            invalid == InvalidFields(p)
        IN  \/ /\ missing # <<>> \/ invalid # <<>>
               /\ GenerateRejected(f, p, missing, invalid)
            \/ /\ missing = <<>> /\ invalid = <<>>
               /\ \E r \in Responses : GenerateCalled(f, p, r)
    /\ UNCHANGED catalogVars

(***************************************************************************)
(* POST /download-docx and POST /download-pdf                              *)
(***************************************************************************)
NoContractFlash == Flash("no_contract", <<>>, NoResult)

\* a guard that forgets to strip
HasText_Unstripped(text) == text # <<>>

\* lines 198 and 210: text.strip() is truthy
HasText(text) == Strip(text) # <<>>

Export(fmt, title, text) == IF fmt = "docx" THEN make_docx(title, text) ELSE make_pdf(title, text)

Download(route, fmt, f) ==
    LET text == FormGet(f.contract_text, <<>>)
        buf == Export(fmt, "Contrat de location", text)
    IN  /\ handler' = route
        /\ form' = f
        /\ UNCHANGED <<params, resp, sent, result>>
        /\ IF ~HasText(text)
           THEN /\ exported' = <<>>
                /\ flashed' = <<NoContractFlash>>
                /\ outcome' = "redirect_index"
           ELSE /\ exported' = <<[fmt |-> fmt, title |-> buf.title, text |-> buf.text]>>
                /\ flashed' = <<>>
                /\ outcome' = IF buf.raised THEN "unhandled_exception" ELSE "attachment"

\* lines 195-205
download_docx_no_db ==
    /\ phase = "serving" /\ handler = "none"
    /\ \E f \in DownloadForms : Download("download-docx", "docx", f)
    /\ UNCHANGED catalogVars

\* lines 207-217
download_pdf_no_db ==
    /\ phase = "serving" /\ handler = "none"
    /\ \E f \in DownloadForms : Download("download-pdf", "pdf", f)
    /\ UNCHANGED catalogVars

(***************************************************************************)
(* Process                                                                 *)
(***************************************************************************)
\* line 43, run once when the module is imported; a raise ends the process
LoadModels ==
    /\ phase = "startup"
    /\ loaded' = load_models_from_json(doc)
    /\ phase' = IF loaded'.raised THEN "crashed" ELSE "serving"
    /\ UNCHANGED <<doc, OPENROUTER_API_KEY, handler, form, resp, params, sent,
                   result, exported, flashed, outcome>>

\* the response has been sent: everything request-scoped is discarded
EndRequest ==
    /\ handler # "none"
    /\ handler' = "none"
    /\ form' = EmptyForm
    /\ resp' = NoResponse
    /\ params' = NoParams
    /\ sent' = <<>>
    /\ result' = NoResult
    /\ exported' = <<>>
    /\ flashed' = <<>>
    /\ outcome' = "none"
    /\ UNCHANGED catalogVars

InitWith(docs) ==
    /\ phase = "startup"
    /\ doc \in docs
    /\ loaded = NotLoaded
    /\ OPENROUTER_API_KEY \in BOOLEAN
    /\ handler = "none"
    /\ form = EmptyForm
    /\ resp = NoResponse
    /\ params = NoParams
    /\ sent = <<>>
    /\ result = NoResult
    /\ exported = <<>>
    /\ flashed = <<>>
    /\ outcome = "none"

\* the catalogs the served process is started on
GoodCatalog ==
    [file |-> "json", top |-> "obj", default |-> JStr("x/y"),
     models |-> [t |-> "list", items |-> <<ItemObj(JStr("x/y"), JStr("L")),
                                           ItemObj(JStr("m1"), JAbsent)>>]]
StartupDocuments == {Unreadable("missing"), GoodCatalog}

Init == InitWith(StartupDocuments)

Next ==
    \/ LoadModels
    \/ Generate
    \/ download_docx_no_db
    \/ download_pdf_no_db
    \/ EndRequest

Spec == Init /\ [][Next]_vars

\* the loader alone, on every document of the bounded family
InitCatalog == InitWith(Documents)
NextCatalog == LoadModels
SpecCatalog == InitCatalog /\ [][NextCatalog]_vars

(***************************************************************************)
(* Properties                                                              *)
(***************************************************************************)
Range(s) == {s[i] : i \in 1..Len(s)}

\* what a form holds, read off the raw fields
EmptyStrings(f) == {k \in Range(StringFields) : Strip(FormGet(f[k], <<>>)) = <<>>}
Unparseable(f) == {k \in Range(NumericFields) : ~to_int_fr(f[k], NoInt).some}
PassesValidation(f) == EmptyStrings(f) = {} /\ Unparseable(f) = {}

\* the field names a flashed message lists under a label
Reported(msg, label) ==
    UNION {Range(msg.parts[i].fields) : i \in {j \in 1..Len(msg.parts) : msg.parts[j].label = label}}

\* C1: a POST /generate with an empty string field or a numeric field that
\* does not normalize makes no call to the remote endpoint and ends with a
\* flash message and a redirect to the entry form.
C1_InvalidFormBlocksGeneration ==
    (handler = "generate" /\ ~PassesValidation(form))
        => /\ sent = <<>>
           /\ Len(flashed) = 1
           /\ outcome = "redirect_index"

C1_Witness ==
    /\ handler = "generate"
    /\ EmptyStrings(form) = {}
    /\ Unparseable(form) = {"duration_months"}
    /\ sent = <<>>
    /\ outcome = "redirect_index"

\* C2: validation is not fail-fast: the one flashed message lists exactly the
\* empty string fields as missing and exactly the unparseable numeric fields
\* as invalid.
C2_AllFailingFieldsReported ==
    (handler = "generate" /\ ~PassesValidation(form))
        => /\ Len(flashed) = 1
           /\ flashed[1].kind = "validation"
           /\ Reported(flashed[1], "Champs manquants") = EmptyStrings(form)
           /\ Reported(flashed[1], "Champs numeriques invalides") = Unparseable(form)

C2_Witness ==
    /\ handler = "generate"
    /\ Len(flashed) = 1
    /\ Len(flashed[1].parts) = 2
    /\ flashed[1].parts[1].fields = <<"tenant_name", "start_date">>
    /\ flashed[1].parts[2].fields = <<"rent", "duration_months">>

\* C3: with no credential configured, no request is ever sent to the remote
\* endpoint.
C3_NoRequestWithoutCredential ==
    ~OPENROUTER_API_KEY => sent = <<>>

\* C4: a POST /generate that passes validation sends exactly one request to
\* the remote endpoint, whatever the answer; a failed call is not retried.
C4_ExactlyOneCall ==
    (handler = "generate" /\ PassesValidation(form)) => Len(sent) = 1

C4_Witness ==
    /\ handler = "generate"
    /\ resp.kind = "response" /\ resp.status = 500
    /\ result.kind = "raise"
    /\ Len(sent) = 1

\* C5: on a non-200 answer or a malformed body (not JSON, or JSON without
\* choices[0].message.content) the client fails with the error that carries
\* the upstream status and payload, and returns no text.
MalformedBody(b) == ~b.json \/ b.shape # "completion"
C5_UpstreamErrorCarriesDiagnostic ==
    (handler = "generate" /\ resp.kind = "response"
        /\ (resp.status # 200 \/ MalformedBody(resp.body)))
        => /\ result.kind = "raise"
           /\ result.exc = "RuntimeError"
           /\ result.status = resp.status
           /\ result.payload = resp.body

\* C6: every POST request ends in Success (result view or attachment) or in
\* Failure (a flash message and a redirect); no error escapes the handler.
C6_TwoOutcomes ==
    handler # "none"
        => \/ outcome \in {"render_result", "attachment"}
           \/ outcome = "redirect_index" /\ flashed # <<>>

\* C7: the download routes never invoke the exporter on absent, empty or
\* whitespace-only contract_text, and answer it with a flash message and a
\* redirect; the exporter only sees text with a non-whitespace character.
C7_NoExportOfBlankText ==
    handler \in {"download-docx", "download-pdf"}
        => /\ (Range(FormGet(form.contract_text, <<>>)) \subseteq Whitespace)
                => (exported = <<>> /\ Len(flashed) = 1 /\ outcome = "redirect_index")
           /\ \A i \in 1..Len(exported) : ~(Range(exported[i].text) \subseteq Whitespace)

C7_Witness ==
    /\ handler = "download-pdf"
    /\ form.contract_text = Str(<<" ", "\n">>)
    /\ exported = <<>>
    /\ outcome = "redirect_index"

\* C8: an amount (rent, security_deposit) written with a fractional part after
\* "," or "." as the decimal separator, such as "1500,50" or "1500.50", is
\* normalized to that decimal value (1500.5) and passes validation.
C8_DecimalAmountsAccepted ==
    handler = "generate"
        => \A k \in {"rent", "security_deposit"} :
              LET d == to_float_fr(form[k], NoFloat) IN
              (d.some /\ d.v.e > 0)
                  => /\ params[k].some /\ Dec(params[k].v, 0) = d.v
                     /\ k \notin Unparseable(form)

\* C9: the loader never raises, and an unreadable or malformed catalog
\* document gives the hard-coded default id and the single hard-coded entry.
Malformed(d) ==
    \/ d.file # "json"
    \/ d.top # "obj"
    \/ d.models.t \notin {"absent", "list"}
    \/ \E i \in 1..Len(d.models.items) :
          \/ d.models.items[i].t # "obj"
          \/ d.models.items[i].id.t \notin {"absent", "str"}
    \/ d.default.t \notin {"absent", "str"}
C9_MalformedCatalogFallsBack ==
    phase # "startup"
        => /\ ~loaded.raised
           /\ Malformed(doc)
                => /\ loaded.default_model = HardCodedDefault
                   /\ loaded.models_list = <<<<HardCodedDefault, FallbackLabel>>>>

\* C10: the model id sent is never empty: the trimmed model_id_custom when
\* model_id is "__custom__", else the trimmed model_id, and DEFAULT_MODEL
\* when that leaves nothing.
Supplied(f) ==
    IF Strip(FormGet(f.model_id, <<>>)) = <<"__custom__">>
    THEN Strip(FormGet(f.model_id_custom, <<>>))
    ELSE Strip(FormGet(f.model_id, <<>>))
C10_ModelFallback ==
    (handler = "generate" /\ sent # <<>>)
        => /\ sent[1].model # <<>>
           /\ sent[1].model = IF Supplied(form) # <<>> THEN Supplied(form)
                              ELSE Tokens(loaded.default_model)

====
